---- MODULE Spec2Model ----
(***************************************************************************)
(* BaseRepository (src/src/BaseRepository.ts): a CRUD wrapper that maps    *)
(* each method to one SQL statement on one table (findAllPaginated: two).  *)
(* The table is the state; every method is an action that runs its         *)
(* statement on the table and leaves what it returns or throws in `last`,  *)
(* where it stays until the caller takes it (Return).                      *)
(*                                                                         *)
(* The table has the columns createTable gives it plus the "name" column   *)
(* of the repository's first test: id (primary key), createdAt, updatedAt  *)
(* (both NOT NULL) and the nullable text column name.                      *)
(* Objects (items, conditions) are functions from property names to        *)
(* values, so that a spread {a, ...item, b} is function override.          *)
(* new Date() reads `clock`, which never goes back.                        *)
(* A statement without ORDER BY returns its rows in an order the storage   *)
(* engine chooses: any order, chosen anew by every statement.  INSERT ...  *)
(* RETURNING gives the rows in the order of its VALUES.                    *)
(* Not modelled: condition callbacks (caller code), an empty insertAll     *)
(* batch, pages and page sizes below 1, the schema helpers alterTable and  *)
(* dropTable.                                                              *)
(***************************************************************************)
EXTENDS Integers, Sequences, FiniteSets, TLC

VARIABLES table, clock, last, pg, walk

vars == <<table, clock, last, pg, walk>>

(* ------------------------------ bounds --------------------------------- *)

MaxId == 2
MaxClock == 1
MaxBatch == 2
MaxPageSize == 2
MaxPage == 2

(* ------------------------------ values --------------------------------- *)

Ids == {ToString(i) : i \in 1..MaxId}
Names == {"foo"}
NULL == "NULL"
Stamps == 0..MaxClock
Columns == {"id", "name", "createdAt", "updatedAt"}
PageSizes == 1..MaxPageSize
Pages == 1..MaxPage

Empty == [k \in {} |-> 0]
Opt(k, S) == {Empty} \cup {k :> v : v \in S}

\* what executeTakeFirst gives when no row comes back
NotFound == [undefined |-> TRUE]
\* the value of a call that returns nothing or throws
Nothing == [void |-> TRUE]
\* no call has a result waiting for its caller
None == [op |-> "none"]

\* the timestamps an item can carry (the types forbid them, JavaScript does
\* not): a createdAt no earlier than any clock reading, an updatedAt no
\* later than any
SuppliedTimestamps ==
  {Empty, [createdAt |-> MaxClock], [updatedAt |-> 0], [createdAt |-> MaxClock, updatedAt |-> 0]}

\* Insert<T> objects as they arrive at run time: id optional, name optional
InsertItems ==
  {i @@ n @@ s : i \in Opt("id", Ids), n \in Opt("name", Names), s \in SuppliedTimestamps}

\* Update<T> objects: id mandatory
UpdateItems ==
  {("id" :> i) @@ n @@ s : i \in Ids, n \in Opt("name", Names \cup {NULL}), s \in SuppliedTimestamps}

FirstId == ToString(1)
LastId == ToString(MaxId)

\* the items of insertAll batches: one without id, one with an id and a
\* name, one with an id, a name and timestamps
BatchItems ==
  {Empty} \cup {[id |-> FirstId, name |-> n] : n \in Names}
          \cup {[id |-> LastId, name |-> n, createdAt |-> MaxClock, updatedAt |-> 0] : n \in Names}

Batches == UNION {[1..n -> BatchItems] : n \in 1..MaxBatch}

\* Filter<T> mappings
Conditions == {i @@ n : i \in Opt("id", Ids), n \in Opt("name", Names \cup {NULL})}

\* items and conditions without timestamps, for the specifications whose
\* subject is pagination
PlainInsertItems == {it \in InsertItems : DOMAIN it \subseteq {"id", "name"} /\ (\A k \in DOMAIN it : it[k] # NULL)}
PlainUpdateItems == {it \in UpdateItems : DOMAIN it \subseteq {"id", "name"} /\ (\A k \in DOMAIN it : it[k] # NULL)}
PlainBatches == {b \in Batches : \A j \in DOMAIN b : b[j] \in PlainInsertItems}
PlainConditions == {c \in Conditions : \A k \in DOMAIN c : c[k] # NULL}

(* --------------------------- the storage ------------------------------- *)

\* a row of the table from the VALUES of an INSERT: a column the statement
\* does not name gets its default (NULL for name)
ToRow(values) ==
  [k \in Columns |-> IF k \in DOMAIN values THEN values[k] ELSE NULL]

\* SQL "=": never true when an operand is NULL
SqlEq(a, b) == a # NULL /\ b # NULL /\ a = b

\* the where clauses joined by OR
MatchesAny(row, condition) ==
  \E k \in DOMAIN condition : SqlEq(row[k], condition[k])

\* for (const [key, value] of Object.entries(condition)) op = op.where(key, "=", value)
Matches(row, condition) ==
  \A k \in DOMAIN condition : SqlEq(row[k], condition[k])

Where(rows, condition) == {r \in rows : Matches(r, condition)}

\* the orders in which a statement can return a set of rows
Orderings(rows) ==
  {s \in [1..Cardinality(rows) -> rows] : \A i, j \in 1..Cardinality(rows) : s[i] = s[j] => i = j}

Range(s) == {s[i] : i \in DOMAIN s}

IdsOf(rows) == {r.id : r \in rows}

\* a table whose id column is no key
NoPrimaryKey(rows, new) == TRUE

\* the primary key of createTable: the new rows' ids are distinct from each
\* other and from the ids in the table
PrimaryKeyOk(rows, new) ==
  /\ \A i, j \in DOMAIN new : new[i].id = new[j].id => i = j
  /\ \A i \in DOMAIN new : new[i].id \notin IdsOf(rows)

\* UPDATE ... SET: the named columns get the given values
SetColumns(row, set) ==
  [k \in Columns |-> IF k \in DOMAIN set THEN set[k] ELSE row[k]]

Min(a, b) == IF a < b THEN a ELSE b

\* rows LIMIT limit OFFSET offset of an ordered result
LimitOffset(s, limit, offset) == SubSeq(s, offset + 1, Min(Len(s), offset + limit))

\* COUNT(*) comes back from the driver as a decimal string
RECURSIVE CountText(_)
CountText(n) == IF n < 10 THEN <<n>> ELSE Append(CountText(n \div 10), n % 10)

\* parseInt(text, 10)
RECURSIVE ParseInt(_)
ParseInt(s) == IF s = <<>> THEN 0 ELSE 10 * ParseInt(SubSeq(s, 1, Len(s) - 1)) + s[Len(s)]

\* Math.ceil(a / b), b > 0
Ceil(a, b) == (a + b - 1) \div b

(* ------------------------ pieces of the methods ------------------------ *)

\* { id: randomUUID(), createdAt: now, updatedAt: now, ...item }
InsertValuesItemLast(item, uuid, now) ==
  item @@ [createdAt |-> now, updatedAt |-> now] @@ [id |-> uuid]

\* randomUUID(): any identifier (one the table has is not excluded); the
\* spread replaces it when the item has an id, so one value stands for all
GeneratedIds(item) == IF "id" \in DOMAIN item THEN {item.id} ELSE Ids

\* { id: randomUUID(), ...item, createdAt: now, updatedAt: now }
InsertValues(item, uuid, now) ==
  [createdAt |-> now, updatedAt |-> now] @@ item @@ [id |-> uuid]

\* { ...item, updatedAt: new Date() }
UpdateSet(item, now) == [updatedAt |-> now] @@ item

Ok(result) == [status |-> "ok", result |-> result]
Threw(error) == [status |-> error, result |-> Nothing]

TakeFirst(returned) == Ok(IF returned = <<>> THEN NotFound ELSE returned[1])

\* executeTakeFirst in the place of executeTakeFirstOrThrow
TakeFirstNoThrow(returned) == TakeFirst(returned)

TakeFirstOrThrow(returned) ==
  IF returned = <<>> THEN Threw("NoResultError") ELSE Ok(returned[1])

\* get without its where clause
GetRowsNoWhere(rows, id) == rows

\* the rows get(id) selects
GetRows(rows, id) == Where(rows, [id |-> id])

\* count(condition)
CountRows(rows, condition) == ParseInt(CountText(Cardinality(Where(rows, condition))))

\* the offset of a page counted from 0
PageOffsetFromZero(page, pageSize) == page * pageSize

PageOffset(page, pageSize) == (page - 1) * pageSize

PageCount(rowCount, pageSize) == Ceil(rowCount, pageSize)

\* what findAllPaginated returns for the count of its first query and the
\* ordered result of its second
PageResult(selected, page, pageSize, rowCount) ==
  [data |-> LimitOffset(selected, pageSize, PageOffset(page, pageSize)),
   page |-> page,
   pageCount |-> PageCount(rowCount, pageSize),
   pageSize |-> pageSize,
   rowCount |-> rowCount]

Done(op, arg, out) == [op |-> op, arg |-> arg, status |-> out.status, result |-> out.result]

Idle == [pc |-> "idle"]

\* a write that takes effect while a findAllPaginated call is between its
\* two queries
Disturb(p, changed) ==
  IF p.pc = "counted" /\ changed THEN [p EXCEPT !.written = TRUE] ELSE p

(* ----------------------------- Init ------------------------------------ *)

Init ==
  /\ table = {}
  /\ clock = 0
  /\ last = None
  /\ pg = Idle
  /\ walk = Idle

(* ---------------------------- actions ---------------------------------- *)

\* time passes between calls
Tick ==
  /\ last = None
  /\ clock < MaxClock
  /\ clock' = clock + 1
  /\ UNCHANGED <<table, last, pg, walk>>

\* the caller takes the result of its call
Return ==
  /\ last # None
  /\ last' = None
  /\ pg' = IF pg.pc = "returned" THEN Idle ELSE pg
  /\ UNCHANGED <<table, clock, walk>>

Insert(item) ==
  /\ last = None
  /\ \E uuid \in GeneratedIds(item) :
       LET now == clock
           row == ToRow(InsertValues(item, uuid, now))
       IN IF PrimaryKeyOk(table, <<row>>)
          THEN /\ table' = table \cup {row}
               /\ last' = Done("insert", item, Ok(row))
          ELSE /\ table' = table
               /\ last' = Done("insert", item, Threw("ConstraintError"))
  /\ pg' = Disturb(pg, table' # table)
  /\ UNCHANGED <<clock, walk>>

InsertAll(items) ==
  /\ last = None
  /\ \E uuids \in {u \in [DOMAIN items -> Ids] : \A j \in DOMAIN items : u[j] \in GeneratedIds(items[j])} :
       LET now == clock
           rows == [j \in DOMAIN items |-> ToRow(InsertValues(items[j], uuids[j], now))]
       IN IF PrimaryKeyOk(table, rows)
          THEN /\ table' = table \cup Range(rows)
               /\ last' = Done("insertAll", items, Ok(rows))
          ELSE /\ table' = table
               /\ last' = Done("insertAll", items, Threw("ConstraintError"))
  /\ pg' = Disturb(pg, table' # table)
  /\ UNCHANGED <<clock, walk>>

FindOneBy(condition) ==
  /\ last = None
  /\ \E selected \in Orderings(Where(table, condition)) :
       last' = Done("findOneBy", condition, TakeFirst(selected))
  /\ UNCHANGED <<table, clock, pg, walk>>

Count(condition) ==
  /\ last = None
  /\ last' = Done("count", condition, Ok(CountRows(table, condition)))
  /\ UNCHANGED <<table, clock, pg, walk>>

FindAll ==
  /\ last = None
  /\ \E selected \in Orderings(table) : last' = Done("findAll", Empty, Ok(selected))
  /\ UNCHANGED <<table, clock, pg, walk>>

FindBy(condition) ==
  /\ last = None
  /\ \E selected \in Orderings(Where(table, condition)) :
       last' = Done("findBy", condition, Ok(selected))
  /\ UNCHANGED <<table, clock, pg, walk>>

Get(id) ==
  /\ last = None
  /\ \E selected \in Orderings(GetRows(table, id)) :
       last' = Done("get", id, TakeFirst(selected))
  /\ UNCHANGED <<table, clock, pg, walk>>

Update(item) ==
  /\ last = None
  /\ LET now == clock
         target == Where(table, [id |-> item.id])
         updated == {SetColumns(r, UpdateSet(item, now)) : r \in target}
     IN /\ table' = (table \ target) \cup updated
        /\ \E returned \in Orderings(updated) :
             last' = Done("update", item, TakeFirstOrThrow(returned))
  /\ pg' = Disturb(pg, table' # table)
  /\ UNCHANGED <<clock, walk>>

Delete(id) ==
  /\ last = None
  /\ LET target == Where(table, [id |-> id])
     IN /\ table' = table \ target
        /\ \E returned \in Orderings(target) :
             last' = Done("delete", id, TakeFirstOrThrow(returned))
  /\ pg' = Disturb(pg, table' # table)
  /\ UNCHANGED <<clock, walk>>

DeleteBy(condition) ==
  /\ last = None
  /\ LET target == Where(table, condition)
     IN /\ table' = table \ target
        /\ \E returned \in Orderings(target) :
             last' = Done("deleteBy", condition, Ok(returned))
  /\ pg' = Disturb(pg, table' # table)
  /\ UNCHANGED <<clock, walk>>

Truncate ==
  /\ last = None
  /\ table' = {}
  /\ last' = Done("truncate", Empty, Ok(Nothing))
  /\ pg' = Disturb(pg, table' # table)
  /\ UNCHANGED <<clock, walk>>

\* findAllPaginated, first query: const rowCount = await this.count(condition)
PaginatedCount(page, pageSize, condition) ==
  /\ last = None
  /\ pg = Idle
  /\ pg' = [pc |-> "counted", page |-> page, pageSize |-> pageSize, condition |-> condition,
            rowCount |-> CountRows(table, condition), written |-> FALSE]
  /\ UNCHANGED <<table, clock, last, walk>>

\* findAllPaginated, second query and the return
PaginatedSelect ==
  /\ last = None
  /\ pg.pc = "counted"
  /\ \E selected \in Orderings(Where(table, pg.condition)) :
       last' = Done("findAllPaginated",
                    [page |-> pg.page, pageSize |-> pg.pageSize, condition |-> pg.condition],
                    Ok(PageResult(selected, pg.page, pg.pageSize, pg.rowCount)))
  /\ pg' = [pg EXCEPT !.pc = "returned"]
  /\ UNCHANGED <<table, clock, walk>>

\* a caller reads the pages 1, 2, ... of one condition and page size, one
\* findAllPaginated call per page, and keeps what each call returned
WalkPage(pageSize, condition) ==
  /\ last = None
  /\ \/ walk = Idle
     \/ /\ walk # Idle
        /\ walk.pageSize = pageSize
        /\ walk.condition = condition
        /\ Len(walk.pages) < walk.pageCount
  /\ LET page == IF walk = Idle THEN 1 ELSE Len(walk.pages) + 1
         rowCount == CountRows(table, condition)
     IN \E selected \in Orderings(Where(table, condition)) :
          LET res == PageResult(selected, page, pageSize, rowCount)
          IN /\ last' = Done("findAllPaginated",
                             [page |-> page, pageSize |-> pageSize, condition |-> condition], Ok(res))
             /\ walk' = [pc |-> "walking", pageSize |-> pageSize, condition |-> condition,
                         rowCount |-> res.rowCount, pageCount |-> res.pageCount,
                         pages |-> IF walk = Idle THEN <<res.data>> ELSE Append(walk.pages, res.data)]
  /\ UNCHANGED <<table, clock, pg>>

\* the caller has read the last page
WalkEnd ==
  /\ last = None
  /\ walk # Idle
  /\ Len(walk.pages) >= walk.pageCount
  /\ walk' = Idle
  /\ UNCHANGED <<table, clock, last, pg>>

(* ------------------------- specifications ------------------------------ *)

\* every single-statement method, with the inputs that carry timestamps
Next ==
  \/ Tick
  \/ Return
  \/ \E item \in InsertItems : Insert(item)
  \/ \E items \in Batches : InsertAll(items)
  \/ \E condition \in Conditions : FindOneBy(condition)
  \/ \E condition \in Conditions : Count(condition)
  \/ FindAll
  \/ \E condition \in Conditions : FindBy(condition)
  \/ \E id \in Ids : Get(id)
  \/ \E item \in UpdateItems : Update(item)
  \/ \E id \in Ids : Delete(id)
  \/ \E condition \in Conditions : DeleteBy(condition)
  \/ Truncate

Spec == Init /\ [][Next]_vars

\* every method, findAllPaginated as its two queries with the other callers'
\* statements between them
NextPaged ==
  \/ Return
  \/ \E item \in PlainInsertItems : Insert(item)
  \/ \E items \in PlainBatches : InsertAll(items)
  \/ \E condition \in PlainConditions : FindOneBy(condition)
  \/ \E condition \in PlainConditions : Count(condition)
  \/ FindAll
  \/ \E condition \in PlainConditions : FindBy(condition)
  \/ \E id \in Ids : Get(id)
  \/ \E item \in PlainUpdateItems : Update(item)
  \/ \E id \in Ids : Delete(id)
  \/ \E condition \in PlainConditions : DeleteBy(condition)
  \/ Truncate
  \/ \E page \in Pages, pageSize \in PageSizes, condition \in PlainConditions :
       PaginatedCount(page, pageSize, condition)
  \/ PaginatedSelect

SpecPaged == Init /\ [][NextPaged]_vars

\* the tables one insertAll leaves
WalkTables ==
  {t \in SUBSET {ToRow([id |-> i, name |-> n, createdAt |-> 0, updatedAt |-> 0]) :
                   i \in Ids, n \in Names \cup {NULL}} :
     \A r1, r2 \in t : r1.id = r2.id => r1 = r2}

InitWalk ==
  /\ table \in WalkTables
  /\ clock = 0
  /\ last = None
  /\ pg = Idle
  /\ walk = Idle

\* a table nobody writes to, read page by page
NextWalk ==
  \/ Return
  \/ \E pageSize \in PageSizes, condition \in Conditions : WalkPage(pageSize, condition)
  \/ WalkEnd

SpecWalk == InitWalk /\ [][NextWalk]_vars

(* ------------------------------ claims --------------------------------- *)

\* the call that has just returned is op, without an error
Returned(l, op) == l.op = op /\ l.status = "ok"

\* the properties of an object that are not id or a timestamp
OtherFields(item) == DOMAIN item \ {"id", "createdAt", "updatedAt"}

CarriesTimestamp(item) == "createdAt" \in DOMAIN item \/ "updatedAt" \in DOMAIN item

\* C1: an update of an existing row returns and stores a row with the same
\* id and createdAt, a strictly greater updatedAt, and the supplied other
\* fields, whatever calls came before and whatever the clock reads.
C1_UpdateAdvancesUpdatedAt ==
  [][last'.op = "update" =>
       \A r \in table : r.id = last'.arg.id =>
         /\ last'.status = "ok"
         /\ last'.result \in table'
         /\ last'.result.id = r.id
         /\ last'.result.createdAt = r.createdAt
         /\ last'.result.updatedAt > r.updatedAt
         /\ \A k \in OtherFields(last'.arg) : last'.result[k] = last'.arg[k]]_vars

\* C2: every row of the table has createdAt <= updatedAt, in every state.
C2_CreatedAtMostUpdated ==
  \A r \in table : r.createdAt <= r.updatedAt

\* C3: update ignores the timestamps its item carries: the stored row has
\* updatedAt = the now of the call and the createdAt it had before.
C3_UpdateIgnoresTimestamps ==
  [][(last'.op = "update" /\ CarriesTimestamp(last'.arg)) =>
       \A r \in table : r.id = last'.arg.id =>
         /\ last'.result \in table'
         /\ last'.result.updatedAt = clock
         /\ last'.result.createdAt = r.createdAt]_vars

\* C4: update and delete of an id no row has throw NoResultError and leave
\* the table as it was; every other method that matches no row returns
\* without error an empty sequence, zero or the not-found value.
C4_NoMatch ==
  [][/\ (last'.op = "update" /\ last'.arg.id \notin IdsOf(table)) =>
          (last'.status = "NoResultError" /\ table' = table)
     /\ (last'.op = "delete" /\ last'.arg \notin IdsOf(table)) =>
          (last'.status = "NoResultError" /\ table' = table)
     /\ (last'.op = "get" /\ last'.arg \notin IdsOf(table)) =>
          (last'.status = "ok" /\ last'.result = NotFound)
     /\ (last'.op = "findOneBy" /\ Where(table, last'.arg) = {}) =>
          (last'.status = "ok" /\ last'.result = NotFound)
     /\ (last'.op \in {"findBy", "deleteBy"} /\ Where(table, last'.arg) = {}) =>
          (last'.status = "ok" /\ last'.result = <<>> /\ table' = table)
     /\ (last'.op = "findAll" /\ table = {}) =>
          (last'.status = "ok" /\ last'.result = <<>>)
     /\ (last'.op = "count" /\ Where(table, last'.arg) = {}) =>
          (last'.status = "ok" /\ last'.result = 0)
     /\ (last'.op = "truncate" /\ table = {}) =>
          (last'.status = "ok" /\ table' = {})
     /\ (last'.op = "findAllPaginated" /\ Where(table, last'.arg.condition) = {}) =>
          /\ last'.status = "ok"
          /\ last'.result.data = <<>>
          /\ ~pg.written => (last'.result.rowCount = 0 /\ last'.result.pageCount = 0)]_vars

C4_Witness ==
  /\ last.op = "update"
  /\ last.status = "NoResultError"
  /\ table # {}

\* C5: a record insert or insertAll returns has createdAt = updatedAt whatever
\* timestamps the input carries; the records of one insertAll share one
\* timestamp, have pairwise distinct ids, and come in the order and with
\* the other fields of the input.
C5_InsertedTimestamps ==
  /\ Returned(last, "insert") => last.result.createdAt = last.result.updatedAt
  /\ Returned(last, "insertAll") =>
       /\ Len(last.result) = Len(last.arg)
       /\ \A i \in DOMAIN last.result :
            /\ last.result[i].createdAt = last.result[i].updatedAt
            /\ last.result[i].createdAt = last.result[1].createdAt
            /\ \A k \in OtherFields(last.arg[i]) : last.result[i][k] = last.arg[i][k]
            /\ "id" \in DOMAIN last.arg[i] => last.result[i].id = last.arg[i].id
            /\ \A j \in DOMAIN last.result : last.result[i].id = last.result[j].id => i = j

C5_Witness ==
  /\ Returned(last, "insertAll")
  /\ Len(last.result) = 2
  /\ CarriesTimestamp(last.arg[1])
  /\ last.arg[1].createdAt # clock
  /\ "name" \in DOMAIN last.arg[2]

UniqueIds(rows) == \A r1, r2 \in rows : r1.id = r2.id => r1 = r2

\* the ids the caller gave the items of a batch
SuppliedIds(items) == {items[j].id : j \in {i \in DOMAIN items : "id" \in DOMAIN items[i]}}

RepeatsId(items) ==
  \E i, j \in DOMAIN items :
    i # j /\ "id" \in DOMAIN items[i] /\ "id" \in DOMAIN items[j] /\ items[i].id = items[j].id

\* C6: no two rows have the same id and no method changes the id of a row:
\* insert uses the caller's id when there is one and a new one otherwise, an
\* insert or insertAll of an id the table has (or twice the same id in one
\* batch) fails with the constraint error and adds no row, and update leaves
\* every row its id.
C6_IdUniqueAndFixed ==
  [][/\ UniqueIds(table')
     /\ Returned(last', "insert") =>
          /\ "id" \in DOMAIN last'.arg => last'.result.id = last'.arg.id
          /\ last'.result.id \notin IdsOf(table)
          /\ table' = table \cup {last'.result}
     /\ (last'.op = "insert" /\ "id" \in DOMAIN last'.arg /\ last'.arg.id \in IdsOf(table)) =>
          (last'.status = "ConstraintError" /\ table' = table)
     /\ (last'.op = "insertAll" /\ (RepeatsId(last'.arg) \/ SuppliedIds(last'.arg) \cap IdsOf(table) # {})) =>
          (last'.status = "ConstraintError" /\ table' = table)
     /\ last'.op \in {"insert", "insertAll"} => table \subseteq table'
     /\ last'.op = "update" =>
          /\ IdsOf(table') = IdsOf(table)
          /\ \A r \in table : r.id # last'.arg.id => r \in table'
          /\ last'.status = "ok" => last'.result.id = last'.arg.id]_vars

C6_Witness ==
  /\ last.op = "insert"
  /\ last.status = "ConstraintError"
  /\ "id" \in DOMAIN last.arg
  /\ last.arg.id \in IdsOf(table)

\* what get(id) can return in a table
GetResults(rows, id) == {TakeFirst(selected).result : selected \in Orderings(GetRows(rows, id))}

\* C7: with no other writer between, get(id) after insert returns the record
\* insert returned, get(id) after update the record update returned; delete
\* returns the row as it was and get(id) after it returns not-found.
C7_GetAfterWrite ==
  [][/\ Returned(last', "insert") => GetResults(table', last'.result.id) = {last'.result}
     /\ Returned(last', "update") => GetResults(table', last'.arg.id) = {last'.result}
     /\ Returned(last', "delete") =>
          /\ GetResults(table, last'.arg) = {last'.result}
          /\ GetResults(table', last'.arg) = {NotFound}]_vars

C7_Witness ==
  /\ Returned(last, "delete")
  /\ table # {}

\* the rows whose fields equal every pair of an exact-match mapping
ExactMatching(rows, condition) ==
  {r \in rows : \A k \in DOMAIN condition : r[k] = condition[k]}

\* C9: deleteBy removes the rows that match and returns them as they were,
\* leaves every other row as it was, returns the empty sequence when nothing
\* matches, and a mapping matches a row only if all its pairs equal the
\* row's fields (so the empty mapping deletes every row).
C9_DeleteByExactly ==
  [][last'.op = "deleteBy" =>
       /\ last'.status = "ok"
       /\ Range(last'.result) \subseteq ExactMatching(table, last'.arg)
       /\ NULL \notin Range(last'.arg) => Range(last'.result) = ExactMatching(table, last'.arg)
       /\ Len(last'.result) = Cardinality(Range(last'.result))
       /\ table' = table \ Range(last'.result)
       /\ last'.arg = Empty => table' = {}]_vars

C9_Witness ==
  /\ Returned(last, "deleteBy")
  /\ last.result # <<>>
  /\ table # {}
  /\ DOMAIN last.arg = {"name"}

Max(a, b) == IF a > b THEN a ELSE b

\* the number of rows page `page` holds when the filtered set has rowCount rows
PageLength(page, pageSize, rowCount) ==
  Min(pageSize, Max(0, rowCount - (page - 1) * pageSize))

\* C10: findAllPaginated reads rowCount and data in two queries; with no
\* write between them len(data) = min(pageSize, max(0, rowCount - (page-1)*pageSize)),
\* and only a write between them makes rowCount and data disagree.
C10_ConsistentUnlessWritten ==
  (last.op = "findAllPaginated" /\ ~pg.written) =>
     Len(last.result.data) = PageLength(last.result.page, last.result.pageSize, last.result.rowCount)

\* data is not empty while rowCount is 0
C10_Witness ==
  /\ last.op = "findAllPaginated"
  /\ pg.written
  /\ last.result.rowCount = 0
  /\ last.result.data # <<>>

RECURSIVE Concat(_)
Concat(ss) == IF ss = <<>> THEN <<>> ELSE Head(ss) \o Concat(Tail(ss))

\* C8: rowCount is the number of matching rows, pageCount is
\* ceil(rowCount / pageSize), and the pages 1..pageCount of an unchanged
\* table, put together, hold every matching row exactly once.
C8_PagesPartition ==
  (walk # Idle /\ Len(walk.pages) >= walk.pageCount) =>
     /\ walk.rowCount = Cardinality(Where(table, walk.condition))
     /\ walk.pageCount * walk.pageSize >= walk.rowCount
     /\ (walk.pageCount - 1) * walk.pageSize < walk.rowCount \/ walk.rowCount = 0
     /\ Concat(SubSeq(walk.pages, 1, walk.pageCount)) \in Orderings(Where(table, walk.condition))

====
